---- MODULE Spec2Model ----
(***************************************************************************)
(* Model of the credentials_service data model (edx-platform):             *)
(* the relational schema of migrations/0001_initial.py, the ORM calls the  *)
(* test suite makes against it, and the store operations that sit on top.  *)
(* Tables are sets of rows; every row carries the AutoField id the schema  *)
(* gives it.  Timestamps (created/modified) take no part in any property   *)
(* checked here and are left out of the rows.                              *)
(***************************************************************************)
EXTENDS Integers, FiniteSets, Sequences, TLC

VARIABLES
    coursecertificate,        \* table credentials_service_coursecertificate
    programcertificate,       \* table credentials_service_programcertificate
    usercredential,           \* table credentials_service_usercredential
    usercredentialattribute,  \* table credentials_service_usercredentialattribute
    signatory,                \* table credentials_service_signatory
    certificatetemplateasset, \* table credentials_service_certificatetemplateasset
    storage,                  \* file-storage backend: stored name -> contents
    seq,                      \* AutoField sequences: table name -> last id handed out
    callers,                  \* concurrent requests: caller -> its position and request
    last                      \* the operation that ran last, its arguments and outcome

vars == <<coursecertificate, programcertificate, usercredential,
          usercredentialattribute, signatory, certificatetemplateasset,
          storage, seq, callers, last>>

----------------------------------------------------------------------------
(* Bounds of the model. *)

MaxCourseCertificates == 2
MaxProgramCertificates == 1
MaxUserCredentials == 2
MaxAttributes == 2
MaxUuid == 2
MaxSignatories == 2
MaxAssets == 2

(* Input domains. *)

Usernames == {"alice", "bob"}
CourseIds == {"org/course/run", "org/course/run2"}
Sites == {1, 2}
ProgramIds == {123}
Namespaces == {"grade", "badge"}
AttrNames == {"grade"}
AttrValues == {"80"}
UUIDs == 1..MaxUuid
Filenames == {"picture1.jpg", "picture2.jpg"}
FileContents == {"file contents!", "file contents"}
Callers == {1, 2}

(* choices= of CourseCertificate.certificate_type *)
CertificateTypes == {"honor", "verified", "professional"}

(* choices= of UserCredential.status, and its default *)
StatusChoices == {"awarded", "revoked"}
StatusDefault == "awarded"

(* the content types a UserCredential's credential may name *)
ContentTypes == {"coursecertificate", "programcertificate"}

Tables == {"coursecertificate", "programcertificate", "usercredential",
           "usercredentialattribute", "signatory", "certificatetemplateasset"}

NoCall == [op |-> "none", outcome |-> "none"]
Idle == [pc |-> "idle", op |-> "none", key |-> <<>>, fresh |-> FALSE, outcome |-> "none"]
Call(op, outcome) == [op |-> op, outcome |-> outcome]

(* AutoField: the next id of a table is one past the last id handed out. *)
AutoField(table) == seq[table] + 1

----------------------------------------------------------------------------
(* Certificate Definition Store *)

(* The table without its unique index. *)
CourseCertificateUniqueTogetherMissing(rows, row) == TRUE

(* A unique index on (course_id, certificate_type) that leaves site out. *)
CourseCertificateUniqueWithoutSite(rows, row) ==
    ~ \E x \in rows : /\ x.course_id = row.course_id
                      /\ x.certificate_type = row.certificate_type

(* unique_together (course_id, certificate_type, site): TRUE when the row may
   be inserted. *)
CourseCertificateUniqueTogether(rows, row) ==
    ~ \E x \in rows : /\ x.course_id = row.course_id
                      /\ x.certificate_type = row.certificate_type
                      /\ x.site = row.site

CourseCertificateRow(id, course_id, certificate_type, site, is_active) ==
    [id |-> id, is_active |-> is_active, title |-> "NULL", course_id |-> course_id,
     certificate_type |-> certificate_type, site |-> site]

ProgramCertificateRow(id, program_id, site, is_active) ==
    [id |-> id, is_active |-> is_active, title |-> "NULL",
     program_id |-> program_id, site |-> site]

(* The INSERT statement of CourseCertificate.objects.create: the unique index
   decides, in the same statement, whether the row goes in. *)
InsertCourseCertificate(op, course_id, certificate_type, site, is_active) ==
    LET row == CourseCertificateRow(AutoField("coursecertificate"), course_id,
                                    certificate_type, site, is_active)
    IN IF CourseCertificateUniqueTogether(coursecertificate, row)
       THEN /\ seq["coursecertificate"] < MaxCourseCertificates
            /\ coursecertificate' = coursecertificate \cup {row}
            /\ seq' = [seq EXCEPT !["coursecertificate"] = row.id]
            /\ last' = Call(op, "ok")
       ELSE /\ UNCHANGED <<coursecertificate, seq>>
            /\ last' = Call(op, "DuplicateDefinition")

create_course_certificate(course_id, certificate_type, site, is_active) ==
    /\ InsertCourseCertificate("create_course_certificate", course_id,
                               certificate_type, site, is_active)
    /\ UNCHANGED <<programcertificate, usercredential, usercredentialattribute,
                   signatory, certificatetemplateasset, storage, callers>>

(* ProgramCertificate has no unique_together: every insert goes in. *)
create_program_certificate(program_id, site, is_active) ==
    LET row == ProgramCertificateRow(AutoField("programcertificate"), program_id,
                                     site, is_active)
    IN /\ seq["programcertificate"] < MaxProgramCertificates
       /\ programcertificate' = programcertificate \cup {row}
       /\ seq' = [seq EXCEPT !["programcertificate"] = row.id]
       /\ last' = Call("create_program_certificate", "ok")
       /\ UNCHANGED <<coursecertificate, usercredential, usercredentialattribute,
                      signatory, certificatetemplateasset, storage, callers>>

----------------------------------------------------------------------------
(* User Credential Ledger *)

(* credential_content_type resolves the discriminator to a concrete table. *)
ContentTypeTable(ct) ==
    IF ct = "coursecertificate" THEN coursecertificate ELSE programcertificate

(* The lookup left out: every (content type, id) passes. *)
UnknownDefinitionUnchecked(ct, id) == FALSE

(* award's lookup of the definition (content type, id) it is given. *)
UnknownDefinition(ct, id) == ~ \E d \in ContentTypeTable(ct) : d.id = id

(* The table without its unique index. *)
UserCredentialUniqueTogetherMissing(rows, row) == TRUE

(* unique_together (username, credential_content_type, credential_id): TRUE
   when the row may be inserted. *)
UserCredentialUniqueTogether(rows, row) ==
    ~ \E x \in rows : /\ x.username = row.username
                      /\ x.credential_content_type = row.credential_content_type
                      /\ x.credential_id = row.credential_id

(* A new row: status takes its default, uuid is the uuid.uuid4() drawn for it. *)
UserCredentialRow(id, username, ct, credential_id, uuid) ==
    [id |-> id, credential_id |-> credential_id, username |-> username,
     status |-> StatusDefault, download_url |-> "NULL", uuid |-> uuid,
     credential_content_type |-> ct]

(* The INSERT statement of UserCredential.objects.create.  uuid.uuid4 is a
   random draw: any identifier may come out, and no index looks at it. *)
InsertUserCredential(op, username, ct, id) ==
    LET key == UserCredentialRow(AutoField("usercredential"), username, ct, id, 0)
    IN IF UserCredentialUniqueTogether(usercredential, key)
       THEN /\ seq["usercredential"] < MaxUserCredentials
            /\ \E u \in UUIDs :
                 usercredential' = usercredential \cup
                     {UserCredentialRow(key.id, username, ct, id, u)}
            /\ seq' = [seq EXCEPT !["usercredential"] = key.id]
            /\ last' = Call(op, "ok")
       ELSE /\ UNCHANGED <<usercredential, seq>>
            /\ last' = Call(op, "DuplicateAward")

award(username, ct, id) ==
    /\ IF UnknownDefinition(ct, id)
       THEN /\ UNCHANGED <<usercredential, seq>>
            /\ last' = Call("award", "UnknownDefinition")
       ELSE InsertUserCredential("award", username, ct, id)
    /\ UNCHANGED <<coursecertificate, programcertificate, usercredentialattribute,
                   signatory, certificatetemplateasset, storage, callers>>

(* revoke as a toggle of the status column. *)
RevokeToggles(rows, id) ==
    {IF r.id = id
     THEN [r EXCEPT !.status = IF @ = "awarded" THEN "revoked" ELSE "awarded"]
     ELSE r : r \in rows}

(* revoke: awarded -> revoked; revoked stays revoked. *)
Revoke(rows, id) ==
    {IF r.id = id THEN [r EXCEPT !.status = "revoked"] ELSE r : r \in rows}

revoke(id) ==
    /\ \E r \in usercredential : r.id = id
    /\ usercredential' = Revoke(usercredential, id)
    /\ last' = Call("revoke", "ok")
    /\ UNCHANGED <<coursecertificate, programcertificate, usercredentialattribute,
                   signatory, certificatetemplateasset, storage, seq, callers>>

(* on_delete=DO_NOTHING: no attribute row goes with the credential. *)
OnDeleteDoNothing(attrs, id) == {}

(* on_delete of UserCredentialAttribute.user_credential (the ForeignKey's
   default, CASCADE): the attribute rows that go when credential id goes. *)
OnDeleteUserCredential(attrs, id) == {a \in attrs : a.user_credential = id}

delete_user_credential(id) ==
    /\ \E r \in usercredential : r.id = id
    /\ usercredential' = {r \in usercredential : r.id # id}
    /\ usercredentialattribute' =
           usercredentialattribute \ OnDeleteUserCredential(usercredentialattribute, id)
    /\ last' = Call("delete_user_credential", "ok")
    /\ UNCHANGED <<coursecertificate, programcertificate, signatory,
                   certificatetemplateasset, storage, seq, callers>>

----------------------------------------------------------------------------
(* Credential Attribute Store *)

UserCredentialAttributeRow(id, user_credential, namespace, name, value) ==
    [id |-> id, namespace |-> namespace, name |-> name, value |-> value,
     user_credential |-> user_credential]

(* An insert that replaces the row of the same (credential, namespace, name). *)
UpsertUserCredentialAttribute(rows, row) ==
    {x \in rows : ~ (/\ x.user_credential = row.user_credential
                     /\ x.namespace = row.namespace
                     /\ x.name = row.name)} \cup {row}

(* The INSERT of UserCredentialAttribute.objects.create: the table has no
   unique_together, the row always goes in under a fresh id. *)
InsertUserCredentialAttribute(rows, row) == rows \cup {row}

set_attribute(user_credential, namespace, name, value) ==
    /\ IF \E r \in usercredential : r.id = user_credential
       THEN /\ seq["usercredentialattribute"] < MaxAttributes
            /\ usercredentialattribute' =
                  InsertUserCredentialAttribute(usercredentialattribute,
                      UserCredentialAttributeRow(AutoField("usercredentialattribute"),
                          user_credential, namespace, name, value))
            /\ seq' = [seq EXCEPT !["usercredentialattribute"] = @ + 1]
            /\ last' = Call("set_attribute", "ok")
       ELSE /\ UNCHANGED <<usercredentialattribute, seq>>
            /\ last' = Call("set_attribute", "NotFound")
    /\ UNCHANGED <<coursecertificate, programcertificate, usercredential,
                   signatory, certificatetemplateasset, storage, callers>>

(* get_attributes(user_credential, namespace?): "ANY" stands for no filter. *)
get_attributes(user_credential, namespace) ==
    {a \in usercredentialattribute :
        /\ a.user_credential = user_credential
        /\ (namespace = "ANY" \/ a.namespace = namespace)}

----------------------------------------------------------------------------
(* File storage backend *)

(* Storage.save(name, content): an existing file is never overwritten; when
   the name is taken the file goes under an alternative name (the name with a
   suffix).  The name the file was stored under is returned. *)
AvailableName(st, name) ==
    IF name \notin DOMAIN st
    THEN name
    ELSE name \o <<CHOOSE k \in 1..(Cardinality(DOMAIN st) + 1) :
                      name \o <<k>> \notin DOMAIN st>>

StorageSave(st, name, content) ==
    [p \in DOMAIN st \cup {AvailableName(st, name)} |->
        IF p = AvailableName(st, name) THEN content ELSE st[p]]

StorageDelete(st, name) == [p \in DOMAIN st \ {name} |-> st[p]]

----------------------------------------------------------------------------
(* Signatory Store *)

(* "The file size should be under 250KB." *)
ImageSizeLimitKB == 250
ImageSizesKB == {1, 250, 251}
Images == [size : ImageSizesKB, raster : BOOLEAN]
SignatoryFilenames == {"picture1.jpg"}

(* The validator of Signatory.image: TRUE when the image passes the size and
   format policy. *)
validate_image(image) == image.size <= ImageSizeLimitKB /\ image.raster

(* upload_to of Signatory.image *)
signatory_assets_path(id, filename) == <<"signatories", id, filename>>

(* Signatory(name, title, image).full_clean(): runs the field's validators and
   saves nothing. *)
full_clean(image) ==
    /\ last' = Call("full_clean",
                    IF validate_image(image) THEN "ok" ELSE "ValidationError")
    /\ UNCHANGED <<coursecertificate, programcertificate, usercredential,
                   usercredentialattribute, signatory, certificatetemplateasset,
                   storage, seq, callers>>

(* Signatory.objects.create(name, title, image): Model.save() inserts the row
   and stores the file under the id-derived path; save() runs no validator. *)
create_signatory(filename, image) ==
    LET id == AutoField("signatory")
        name == AvailableName(storage, signatory_assets_path(id, filename))
    IN /\ seq["signatory"] < MaxSignatories
       /\ storage' = StorageSave(storage, signatory_assets_path(id, filename), image)
       /\ signatory' = signatory \cup
             {[id |-> id, name |-> "test name", title |-> "test title",
               image |-> name]}
       /\ seq' = [seq EXCEPT !["signatory"] = id]
       /\ last' = Call("create_signatory", "ok")
       /\ UNCHANGED <<coursecertificate, programcertificate, usercredential,
                      usercredentialattribute, certificatetemplateasset, callers>>

----------------------------------------------------------------------------
(* Certificate Template Store: template assets *)

(* upload_to that keeps the file already stored under the name. *)
template_assets_path_keeps_old(st, id, filename) == st

(* upload_to of CertificateTemplateAsset.asset_file: the name is
   credential_certificate_template_assets/<id>/<filename> ... *)
TemplateAssetName(id, filename) ==
    <<"credential_certificate_template_assets", id, filename>>

(* ... and a file already stored under that name is deleted first. *)
template_assets_path(st, id, filename) ==
    IF TemplateAssetName(id, filename) \in DOMAIN st
    THEN StorageDelete(st, TemplateAssetName(id, filename))
    ELSE st

(* FieldFile.save: the name comes from upload_to, the storage stores the file
   and answers with the name it used, which the record keeps. *)
SaveAssetFile(st, id, filename, content) ==
    StorageSave(template_assets_path(st, id, filename),
                TemplateAssetName(id, filename), content)

StoredAssetName(st, id, filename) ==
    AvailableName(template_assets_path(st, id, filename),
                  TemplateAssetName(id, filename))

(* CertificateTemplateAsset.objects.create(name, asset_file): the row is
   inserted first (the path needs its id), then the file is stored and the
   row's asset_file set. *)
create_template_asset(filename, content) ==
    LET id == AutoField("certificatetemplateasset")
    IN /\ seq["certificatetemplateasset"] < MaxAssets
       /\ storage' = SaveAssetFile(storage, id, filename, content)
       /\ certificatetemplateasset' = certificatetemplateasset \cup
             {[id |-> id, name |-> "test name",
               asset_file |-> StoredAssetName(storage, id, filename)]}
       /\ seq' = [seq EXCEPT !["certificatetemplateasset"] = id]
       /\ last' = Call("create_template_asset", "ok")
       /\ UNCHANGED <<coursecertificate, programcertificate, usercredential,
                      usercredentialattribute, signatory, callers>>

(* asset.asset_file = <uploaded file>; asset.save() on an existing asset. *)
upload_template_asset(id, filename, content) ==
    /\ \E a \in certificatetemplateasset : a.id = id
    /\ storage' = SaveAssetFile(storage, id, filename, content)
    /\ certificatetemplateasset' =
          {IF a.id = id
           THEN [a EXCEPT !.asset_file = StoredAssetName(storage, id, filename)]
           ELSE a : a \in certificatetemplateasset}
    /\ last' = Call("upload_template_asset", "ok")
    /\ UNCHANGED <<coursecertificate, programcertificate, usercredential,
                   usercredentialattribute, signatory, seq, callers>>

----------------------------------------------------------------------------
(* Concurrent requests.  A request takes two steps: it starts (award looks its
   definition up), and later its INSERT statement runs; other requests may run
   in between.  fresh records whether the key was free when the request began. *)

begin_create_course_certificate(c, course_id, certificate_type, site) ==
    /\ callers[c].pc = "idle"
    /\ callers' = [callers EXCEPT ![c] =
          [pc |-> "insert", op |-> "create_course_certificate",
           key |-> <<course_id, certificate_type, site>>,
           fresh |-> ~ \E x \in coursecertificate :
                         /\ x.course_id = course_id
                         /\ x.certificate_type = certificate_type
                         /\ x.site = site,
           outcome |-> "pending"]]
    /\ UNCHANGED <<coursecertificate, programcertificate, usercredential,
                   usercredentialattribute, signatory, certificatetemplateasset,
                   storage, seq, last>>

begin_award(c, username, ct, id) ==
    /\ callers[c].pc = "idle"
    /\ callers' = [callers EXCEPT ![c] =
          [pc |-> IF UnknownDefinition(ct, id) THEN "done" ELSE "insert",
           op |-> "award", key |-> <<username, ct, id>>,
           fresh |-> ~ \E x \in usercredential :
                         /\ x.username = username
                         /\ x.credential_content_type = ct
                         /\ x.credential_id = id,
           outcome |-> IF UnknownDefinition(ct, id)
                       THEN "UnknownDefinition" ELSE "pending"]]
    /\ UNCHANGED <<coursecertificate, programcertificate, usercredential,
                   usercredentialattribute, signatory, certificatetemplateasset,
                   storage, seq, last>>

insert_course_certificate(c) ==
    /\ callers[c].pc = "insert"
    /\ callers[c].op = "create_course_certificate"
    /\ InsertCourseCertificate("create_course_certificate", callers[c].key[1],
                               callers[c].key[2], callers[c].key[3], FALSE)
    /\ callers' = [callers EXCEPT ![c].pc = "done", ![c].outcome = last'.outcome]
    /\ UNCHANGED <<programcertificate, usercredential, usercredentialattribute,
                   signatory, certificatetemplateasset, storage>>

insert_user_credential(c) ==
    /\ callers[c].pc = "insert"
    /\ callers[c].op = "award"
    /\ InsertUserCredential("award", callers[c].key[1], callers[c].key[2],
                            callers[c].key[3])
    /\ callers' = [callers EXCEPT ![c].pc = "done", ![c].outcome = last'.outcome]
    /\ UNCHANGED <<coursecertificate, programcertificate, usercredentialattribute,
                   signatory, certificatetemplateasset, storage>>

(* The response has gone out; the worker takes the next request. *)
respond(c) ==
    /\ callers[c].pc = "done"
    /\ callers' = [callers EXCEPT ![c] = Idle]
    /\ UNCHANGED <<coursecertificate, programcertificate, usercredential,
                   usercredentialattribute, signatory, certificatetemplateasset,
                   storage, seq, last>>

----------------------------------------------------------------------------
(* Specifications *)

Init ==
    /\ coursecertificate = {}
    /\ programcertificate = {}
    /\ usercredential = {}
    /\ usercredentialattribute = {}
    /\ signatory = {}
    /\ certificatetemplateasset = {}
    /\ storage = <<>>
    /\ seq = [t \in Tables |-> 0]
    /\ callers = [c \in Callers |-> Idle]
    /\ last = NoCall

(* The ledger over a small catalogue of definitions: a course certificate
   created with the column default is_active = False, and program certificates
   created active. *)
LedgerCourseIds == {"org/course/run"}
LedgerCertificateTypes == {"honor"}
LedgerSites == {1}
DefinitionIds == {1, 2}
CredentialIds == 1..MaxUserCredentials

LedgerNext ==
    \/ \E c \in LedgerCourseIds, t \in LedgerCertificateTypes, s \in LedgerSites :
          create_course_certificate(c, t, s, FALSE)
    \/ \E p \in ProgramIds, s \in LedgerSites :
          create_program_certificate(p, s, TRUE)
    \/ \E u \in Usernames, ct \in ContentTypes, d \in DefinitionIds : award(u, ct, d)
    \/ \E id \in CredentialIds : revoke(id)
    \/ \E id \in CredentialIds : delete_user_credential(id)

SpecLedger == Init /\ [][LedgerNext]_vars

(* The attribute store: every operation that touches a credential or its
   attributes, over one course certificate created with the column defaults. *)
AttributeNext ==
    \/ \E c \in LedgerCourseIds, t \in LedgerCertificateTypes, s \in LedgerSites :
          create_course_certificate(c, t, s, FALSE)
    \/ \E u \in Usernames, ct \in ContentTypes, d \in DefinitionIds : award(u, ct, d)
    \/ \E id \in CredentialIds : revoke(id)
    \/ \E id \in CredentialIds : delete_user_credential(id)
    \/ \E id \in CredentialIds, ns \in Namespaces, n \in AttrNames, v \in AttrValues :
          set_attribute(id, ns, n, v)

SpecAttributes == Init /\ [][AttributeNext]_vars

(* The Certificate Definition Store over every course key, each definition
   created with the column default is_active = False. *)
DefinitionNext ==
    \/ \E c \in CourseIds, t \in CertificateTypes, s \in Sites :
          create_course_certificate(c, t, s, FALSE)
    \/ \E p \in ProgramIds, s \in Sites :
          create_program_certificate(p, s, FALSE)

SpecDefinitions == Init /\ [][DefinitionNext]_vars

(* Two workers serving create_course_certificate and award requests. *)
ConcurrentNext ==
    \/ \E c \in Callers, k \in LedgerCourseIds, t \in LedgerCertificateTypes,
          s \in LedgerSites : begin_create_course_certificate(c, k, t, s)
    \/ \E c \in Callers, u \in Usernames, ct \in ContentTypes, d \in DefinitionIds :
          begin_award(c, u, ct, d)
    \/ \E c \in Callers : insert_course_certificate(c)
    \/ \E c \in Callers : insert_user_credential(c)
    \/ \E c \in Callers : respond(c)

SpecConcurrent == Init /\ [][ConcurrentNext]_vars

(* The Signatory Store. *)
SignatoryNext ==
    \/ \E i \in Images : full_clean(i)
    \/ \E f \in SignatoryFilenames, i \in Images : create_signatory(f, i)

SpecSignatory == Init /\ [][SignatoryNext]_vars

(* Template assets and the files behind them. *)
AssetIds == 1..MaxAssets

AssetNext ==
    \/ \E f \in Filenames, c \in FileContents : create_template_asset(f, c)
    \/ \E id \in AssetIds, f \in Filenames, c \in FileContents :
          upload_template_asset(id, f, c)

SpecAssets == Init /\ [][AssetNext]_vars

----------------------------------------------------------------------------
(* Properties of the User Credential Ledger *)

CredentialsOf(username, ct, id) ==
    {r \in usercredential : /\ r.username = username
                            /\ r.credential_content_type = ct
                            /\ r.credential_id = id}

DefinitionsOf(ct, id) ==
    IF ct = "coursecertificate"
    THEN {d \in coursecertificate : d.id = id}
    ELSE IF ct = "programcertificate"
    THEN {d \in programcertificate : d.id = id}
    ELSE {}

NoDuplicateAward ==
    \A x, y \in usercredential :
        (/\ x.username = y.username
         /\ x.credential_content_type = y.credential_content_type
         /\ x.credential_id = y.credential_id) => x = y

(* What award(username, ct, id) must have done when the definition exists. *)
AwardOnce(username, ct, id) ==
    IF CredentialsOf(username, ct, id) = {}
    THEN /\ last'.outcome = "ok"
         /\ \E r \in usercredential' :
               /\ r \notin usercredential
               /\ r.username = username
               /\ r.credential_content_type = ct
               /\ r.credential_id = id
               /\ r.status = "awarded"
               /\ usercredential' = usercredential \cup {r}
         /\ Cardinality(usercredential') = Cardinality(usercredential) + 1
    ELSE /\ last'.outcome = "DuplicateAward"
         /\ UNCHANGED <<usercredential, usercredentialattribute>>

(* C1: the first award of a definition to a user adds exactly one awarded
   UserCredential; an award whose (username, content type, id) is already in the
   ledger fails with DuplicateAward and changes nothing; no two rows ever share
   (username, credential_content_type, credential_id). *)
C1_AwardOncePerUserAndDefinition ==
    /\ []NoDuplicateAward
    /\ [][\A u \in Usernames, ct \in ContentTypes, d \in DefinitionIds :
            (award(u, ct, d) /\ DefinitionsOf(ct, d) # {}) => AwardOnce(u, ct, d)]_vars

C1_Witness ==
    /\ last = Call("award", "DuplicateAward")
    /\ \E r \in usercredential : r.status = "awarded"

(* C10: award against a definition that is not there fails with
   UnknownDefinition and adds no row; award against a definition that is there
   but inactive goes through; every UserCredential names exactly one
   CourseCertificate or ProgramCertificate. *)
C10_AwardNeedsDefinition ==
    /\ [](\A r \in usercredential :
            Cardinality(DefinitionsOf(r.credential_content_type, r.credential_id)) = 1)
    /\ [][\A u \in Usernames, ct \in ContentTypes, d \in DefinitionIds :
            award(u, ct, d) =>
               /\ DefinitionsOf(ct, d) = {} =>
                     /\ last'.outcome = "UnknownDefinition"
                     /\ UNCHANGED usercredential
               /\ (/\ \E x \in DefinitionsOf(ct, d) : ~ x.is_active
                   /\ CredentialsOf(u, ct, d) = {}) =>
                     /\ last'.outcome = "ok"
                     /\ CredentialsOf(u, ct, d)' # {}]_vars

C10_Witness ==
    /\ last = Call("award", "ok")
    /\ \E r \in usercredential :
          /\ r.credential_content_type = "coursecertificate"
          /\ \E d \in coursecertificate : d.id = r.credential_id /\ ~ d.is_active
    /\ programcertificate = {}

StatusIn(id, rows) == {r.status : r \in {x \in rows : x.id = id}}

(* C4: status is awarded or revoked; revoke sets it to revoked, from awarded
   and from revoked alike, without an error and without touching another
   credential; a revoked credential is never awarded again. *)
C4_RevokeIsOneWay ==
    /\ [](\A r \in usercredential : r.status \in StatusChoices)
    /\ [][\A id \in CredentialIds :
            revoke(id) =>
               /\ last'.outcome = "ok"
               /\ StatusIn(id, usercredential') = {"revoked"}
               /\ \A r \in usercredential : r.id # id => r \in usercredential'
               /\ Cardinality(usercredential') = Cardinality(usercredential)]_vars
    /\ [][\A r \in usercredential :
            r.status = "revoked" => StatusIn(r.id, usercredential') \subseteq {"revoked"}]_vars

C4_Witness ==
    /\ last = Call("revoke", "ok")
    /\ \E r \in usercredential : r.status = "revoked"
    /\ \E r \in usercredential : r.status = "awarded"

(* C5: deleting a UserCredential removes exactly the attribute rows that
   reference it; every attribute row references a UserCredential that exists. *)
C5_DeleteCascadesToAttributes ==
    /\ [](\A a \in usercredentialattribute :
            \E r \in usercredential : r.id = a.user_credential)
    /\ [][\A id \in CredentialIds :
            delete_user_credential(id) =>
               usercredentialattribute' =
                  {a \in usercredentialattribute : a.user_credential # id}]_vars

C5_Witness ==
    /\ last = Call("delete_user_credential", "ok")
    /\ usercredentialattribute # {}
    /\ seq["usercredentialattribute"] > Cardinality(usercredentialattribute)

(* C6: a UserCredential keeps the uuid it was created with, and no two
   UserCredential rows have the same uuid. *)
C6_UuidOnceAndUnique ==
    /\ [](\A x, y \in usercredential : x.uuid = y.uuid => x = y)
    /\ [][\A r \in usercredential : \A r2 \in usercredential' :
            r.id = r2.id => r.uuid = r2.uuid]_vars

SameAttribute(user_credential, namespace, name) ==
    {a \in usercredentialattribute : /\ a.user_credential = user_credential
                                     /\ a.namespace = namespace
                                     /\ a.name = name}

(* C9: set_attribute on an existing UserCredential adds exactly one row and
   leaves every earlier row as it was, the rows of the same (credential,
   namespace, name) included; get_attributes returns every row of the
   credential. *)
C9_SetAttributeAppends ==
    /\ [](\A a \in usercredentialattribute :
            /\ a \in get_attributes(a.user_credential, "ANY")
            /\ a \in get_attributes(a.user_credential, a.namespace))
    /\ [][\A id \in CredentialIds, ns \in Namespaces, n \in AttrNames, v \in AttrValues :
            (set_attribute(id, ns, n, v) /\ \E r \in usercredential : r.id = id) =>
               /\ last'.outcome = "ok"
               /\ usercredentialattribute \subseteq usercredentialattribute'
               /\ Cardinality(usercredentialattribute') =
                     Cardinality(usercredentialattribute) + 1
               /\ Cardinality(SameAttribute(id, ns, n)') =
                     Cardinality(SameAttribute(id, ns, n)) + 1
               /\ \E a \in usercredentialattribute' \ usercredentialattribute :
                     /\ a.user_credential = id /\ a.namespace = ns
                     /\ a.name = n /\ a.value = v
                     /\ a \in get_attributes(id, "ANY")'
               /\ get_attributes(id, "ANY") \subseteq get_attributes(id, "ANY")'
               /\ usercredential' = usercredential]_vars

C9_Witness ==
    /\ last = Call("set_attribute", "ok")
    /\ \E a, b \in usercredentialattribute :
          /\ a # b
          /\ a.user_credential = b.user_credential
          /\ a.namespace = b.namespace /\ a.name = b.name /\ a.value = b.value

----------------------------------------------------------------------------
(* Properties of the Certificate Definition Store *)

CourseCertificatesOf(course_id, certificate_type, site) ==
    {x \in coursecertificate : /\ x.course_id = course_id
                               /\ x.certificate_type = certificate_type
                               /\ x.site = site}

NoDuplicateDefinition ==
    \A x, y \in coursecertificate :
        (/\ x.course_id = y.course_id
         /\ x.certificate_type = y.certificate_type
         /\ x.site = y.site) => x = y

(* C2: create_course_certificate goes through when no CourseCertificate has
   the (course_id, certificate_type, site) and adds one row for it; it fails
   with DuplicateDefinition, changing nothing, when one has; at most one
   CourseCertificate exists per triple. *)
C2_OneDefinitionPerCourseTypeSite ==
    /\ []NoDuplicateDefinition
    /\ [][\A c \in CourseIds, t \in CertificateTypes, s \in Sites, f \in BOOLEAN :
            create_course_certificate(c, t, s, f) =>
               IF CourseCertificatesOf(c, t, s) = {}
               THEN /\ last'.outcome = "ok"
                    /\ Cardinality(CourseCertificatesOf(c, t, s)') = 1
                    /\ coursecertificate \subseteq coursecertificate'
                    /\ Cardinality(coursecertificate') =
                          Cardinality(coursecertificate) + 1
               ELSE /\ last'.outcome = "DuplicateDefinition"
                    /\ UNCHANGED coursecertificate]_vars

C2_Witness ==
    /\ last = Call("create_course_certificate", "DuplicateDefinition")
    /\ \E x, y \in coursecertificate :
          /\ x.course_id = y.course_id
          /\ x.certificate_type = y.certificate_type
          /\ x.site # y.site

Duplicate(op) ==
    IF op = "award" THEN "DuplicateAward" ELSE "DuplicateDefinition"

Raced(c1, c2) ==
    /\ c1 # c2
    /\ callers[c1].pc = "done" /\ callers[c2].pc = "done"
    /\ callers[c1].op = callers[c2].op
    /\ callers[c1].key = callers[c2].key
    /\ callers[c1].fresh /\ callers[c2].fresh
    /\ callers[c1].outcome # "UnknownDefinition"
    /\ callers[c2].outcome # "UnknownDefinition"

(* C3: of two requests that both began while their key was free, one for the
   same (course_id, certificate_type, site) or the same (username, definition)
   as the other, exactly one succeeds and the other fails with
   DuplicateDefinition (DuplicateAward for award); two rows for a key never
   exist. *)
C3_ConcurrentInsertsOneWinner ==
    /\ NoDuplicateDefinition
    /\ NoDuplicateAward
    /\ \A c1, c2 \in Callers :
          Raced(c1, c2) =>
             {callers[c1].outcome, callers[c2].outcome} =
                {"ok", Duplicate(callers[c1].op)}

C3_Witness ==
    /\ Raced(1, 2)
    /\ callers[1].op = "award"
    /\ callers[1].outcome = "DuplicateAward"
    /\ callers[2].outcome = "ok"

----------------------------------------------------------------------------
(* Properties of the Signatory and Certificate Template Stores *)

(* C7: every persisted Signatory has an image that passes the size and format
   policy: no path that creates a Signatory stores one whose image fails it. *)
C7_PersistedSignatoryImageValid ==
    \A s \in signatory :
        /\ s.image \in DOMAIN storage
        /\ storage[s.image].size <= ImageSizeLimitKB
        /\ storage[s.image].raster

AssetRow(rows, id) == CHOOSE a \in rows : a.id = id

(* What a save of file (filename, content) on asset id must have done. *)
AssetReplaced(id, filename, content) ==
    LET p == <<"credential_certificate_template_assets", id, filename>>
    IN /\ AssetRow(certificatetemplateasset', id).asset_file = p
       /\ p \in DOMAIN storage'
       /\ storage'[p] = content
       /\ DOMAIN storage' = DOMAIN storage \cup {p}
       /\ \A q \in DOMAIN storage \ {p} : storage'[q] = storage[q]
       /\ \A a \in certificatetemplateasset : a.id # id => a \in certificatetemplateasset'

(* C8: after an upload to asset N under a filename, the record's asset_file is
   credential_certificate_template_assets/N/<filename> and that path holds the
   uploaded file; an upload under a name already stored replaces the file at
   the same path and adds no other file; no other asset's record or file
   changes; every record's asset_file names a file in storage. *)
C8_AssetFileReplacedInPlace ==
    /\ [](\A a \in certificatetemplateasset :
            /\ a.asset_file \in DOMAIN storage
            /\ \E f \in Filenames :
                  a.asset_file = <<"credential_certificate_template_assets", a.id, f>>)
    /\ [][\A id \in AssetIds, f \in Filenames, c \in FileContents :
            upload_template_asset(id, f, c) => AssetReplaced(id, f, c)]_vars
    /\ [][\A f \in Filenames, c \in FileContents :
            create_template_asset(f, c) =>
               AssetReplaced(seq'["certificatetemplateasset"], f, c)]_vars

C8_Witness ==
    /\ last = Call("upload_template_asset", "ok")
    /\ seq["certificatetemplateasset"] = 1
    /\ DOMAIN storage = {<<"credential_certificate_template_assets", 1, "picture1.jpg">>}
    /\ storage[<<"credential_certificate_template_assets", 1, "picture1.jpg">>]
          = "file contents"

====
